---- MODULE Spec2Model ----
(***************************************************************************)
(* Model of the memory- and task-management core of the os4 kernel:        *)
(*   mm/frame_allocator.rs  StackFrameAllocator, FrameTracker              *)
(*   task/mod.rs            TaskManager (scheduler, mmap / unmap)          *)
(*   task/task.rs           TaskControlBlock, TaskStatus                   *)
(*   syscall/process.rs     sys_exit, sys_yield, sys_mmap, sys_munmap,     *)
(*                          sys_task_info                                  *)
(***************************************************************************)
EXTENDS Integers, Sequences, FiniteSets, Bags

VARIABLES
    FRAME_ALLOCATOR,  \* [current, end, recycled] of the StackFrameAllocator
    trackers,         \* bag of the ppn held by each live FrameTracker
    panicked,         \* NoPanic, or the message of the panic that stopped the kernel
    frame_call,       \* history: the last allocator call, its result and the state it ran on
    burst,            \* history: the allocations made since the last release
    TASK_MANAGER,     \* [num_app, tasks, current_task]: TaskManager and its inner
    started,          \* TRUE once run_first_task has switched into task 0
    sys_call,         \* history: the last call into the task manager and what it returned
    map_hist,         \* history: the sys_mmap of whole pages that has just succeeded
    yields,           \* history: the sys_yield calls (SchedSpec counts, FairSpec mod 2)
    clock,            \* the timer: the microseconds get_time_us() returns
    first_sched,      \* history: for each task the clock when it was first scheduled
    task_info,        \* history: the TaskInfo sys_task_info wrote last, and the clock then
    borrowed,         \* TRUE while the exclusive access to TASK_MANAGER.inner is held
    kpath,            \* the TaskManager methods the kernel has still to call in this trap
    inside,           \* TRUE while the first method of kpath holds the exclusive access
    waiting           \* history: for each Ready task the switches that have passed it by

frameVars == <<FRAME_ALLOCATOR, trackers, frame_call, burst>>

\* the timer and the histories kept for the timed calls
infoVars == <<clock, first_sched, task_info>>

\* the exclusive access and the position of the kernel in a trap
lockVars == <<borrowed, kpath, inside>>

taskVars == <<TASK_MANAGER, started, sys_call, map_hist, yields, infoVars,
              lockVars, waiting>>

vars == <<FRAME_ALLOCATOR, trackers, panicked, frame_call, burst,
          TASK_MANAGER, started, sys_call, map_hist, yields,
          clock, first_sched, task_info, borrowed, kpath, inside, waiting>>

----------------------------------------------------------------------------
(* Bounds of the model *)

\* number of frames between ekernel and MEMORY_END is at most MaxFrames
MaxFrames == 4
\* the first manageable frame number is at most MaxBase
MaxBase == 1
\* the scheduler is checked with up to MaxApp applications
MaxApp == 4
\* SchedSpec counts up to MaxYields calls of sys_yield
MaxYields == 5
\* the address spaces are checked with up to MaxMapApp applications
MaxMapApp == 2
\* the virtual pages of the modelled window of an address space are 0..MaxVpn
MaxVpn == 1
\* the syscall counters kept per task are those of the ids 0..MaxSyscallId
MaxSyscallId == 0
\* the timer is advanced at most MaxTicks times
MaxTicks == 3
\* the timed calls are checked with up to MaxInfoApp applications
MaxInfoApp == 2

----------------------------------------------------------------------------
(* Values *)

\* Option::None of alloc / find_next_task (frame numbers and indices are >= 0)
None == -1

NoPanic == "none"
NotAllocatedPanic == "Frame ppn has not been allocated!"
AllCompletedPanic == "All applications completed!"
UnwrapPanic == "called Option::unwrap() on a None value"
AlreadyHeldPanic == "exclusive access is already held"

Range(s) == {s[i] : i \in 1..Len(s)}

\* Vec::pop leaves the vector without its last element
Front(s) == SubSeq(s, 1, Len(s) - 1)

----------------------------------------------------------------------------
(* mm/frame_allocator.rs : StackFrameAllocator *)

\* StackFrameAllocator::new followed by init(l, r)
StackFrameAllocator_init(l, r) ==
    [current |-> l, end |-> r, recycled |-> <<>>]

\* alloc that reads the top of recycled without popping it
alloc_no_pop(a) ==
    IF a.recycled # <<>>
    THEN [ret |-> a.recycled[Len(a.recycled)], a |-> a]
    ELSE IF a.current = a.end
    THEN [ret |-> None, a |-> a]
    ELSE [ret |-> a.current, a |-> [a EXCEPT !.current = a.current + 1]]

\* alloc that takes the oldest recycled frame (queue order)
alloc_fifo(a) ==
    IF a.recycled # <<>>
    THEN [ret |-> a.recycled[1], a |-> [a EXCEPT !.recycled = Tail(a.recycled)]]
    ELSE IF a.current = a.end
    THEN [ret |-> None, a |-> a]
    ELSE [ret |-> a.current, a |-> [a EXCEPT !.current = a.current + 1]]

\* alloc that gives up as soon as the linear range is used up
alloc_none_when_full(a) ==
    IF a.current = a.end
    THEN [ret |-> None, a |-> a]
    ELSE IF a.recycled # <<>>
    THEN [ret |-> a.recycled[Len(a.recycled)],
          a   |-> [a EXCEPT !.recycled = Front(a.recycled)]]
    ELSE [ret |-> a.current, a |-> [a EXCEPT !.current = a.current + 1]]

\* StackFrameAllocator::alloc : the returned Option and the allocator after it
alloc(a) ==
    IF a.recycled # <<>>
    THEN [ret |-> a.recycled[Len(a.recycled)],
          a   |-> [a EXCEPT !.recycled = Front(a.recycled)]]
    ELSE IF a.current = a.end
    THEN [ret |-> None, a |-> a]
    ELSE [ret |-> a.current, a |-> [a EXCEPT !.current = a.current + 1]]

\* dealloc without the double-free half of the validity check
dealloc_no_double_free_check(a, ppn) ==
    IF ppn >= a.current
    THEN [panic |-> NotAllocatedPanic, a |-> a]
    ELSE [panic |-> NoPanic, a |-> [a EXCEPT !.recycled = Append(a.recycled, ppn)]]

\* dealloc that takes current back when the last frame of the range is freed
dealloc_rewinds(a, ppn) ==
    IF ppn >= a.current \/ \E i \in 1..Len(a.recycled) : a.recycled[i] = ppn
    THEN [panic |-> NotAllocatedPanic, a |-> a]
    ELSE IF ppn = a.current - 1
    THEN [panic |-> NoPanic, a |-> [a EXCEPT !.current = ppn]]
    ELSE [panic |-> NoPanic, a |-> [a EXCEPT !.recycled = Append(a.recycled, ppn)]]

\* StackFrameAllocator::dealloc : whether it panics and the allocator after it
dealloc(a, ppn) ==
    IF ppn >= a.current \/ \E i \in 1..Len(a.recycled) : a.recycled[i] = ppn
    THEN [panic |-> NotAllocatedPanic, a |-> a]
    ELSE [panic |-> NoPanic, a |-> [a EXCEPT !.recycled = Append(a.recycled, ppn)]]

----------------------------------------------------------------------------
(* config, mm : page arithmetic and the address space of a task *)

PAGE_SIZE == 4096

VPNs == 0..MaxVpn

\* VirtAddr::floor and VirtAddr::ceil : the page number below / above an address
floor(va) == va \div PAGE_SIZE
ceil(va) == (va + PAGE_SIZE - 1) \div PAGE_SIZE

\* MapPermission bits: R = 2, W = 4, X = 8, U = 16
PermU == 16
PermBits == 30

\* a page-table entry that maps nothing
Unmapped == 0

\* x | 16 for a value below 256
BitOr16(x) == IF (x \div PermU) % 2 = 1 THEN x ELSE x + PermU

\* MapPermission::from_bits(((port << 1) | 16) as u8): None if a bit is no flag
from_bits_of_port(port) ==
    LET bits == BitOr16((port * 2) % 256)
    IN  IF bits % 2 = 0 /\ bits \div (PermBits + 2) = 0 THEN bits ELSE None

\* MemorySet::from_elf : page 0 of the window holds a loaded R|W|U segment
ElfPerm == 22
from_elf == [vpn \in VPNs |-> IF vpn = 0 THEN ElfPerm ELSE Unmapped]

\* MemorySet::is_all_map(vpn) : the page is mapped
is_all_map(memory_set, vpn) == memory_set[vpn] # Unmapped

\* MemorySet::is_not_all_map(vpn) : the page is not mapped
is_not_all_map(memory_set, vpn) == memory_set[vpn] = Unmapped

\* MemorySet::insert_framed_area(start_va, end_va, permission)
insert_framed_area(memory_set, start_va, end_va, permission) ==
    [vpn \in VPNs |->
        IF floor(start_va) <= vpn /\ vpn < ceil(end_va)
        THEN permission ELSE memory_set[vpn]]

\* MemorySet::remove_map_area(vpn)
remove_map_area(memory_set, vpn) == [memory_set EXCEPT ![vpn] = Unmapped]

----------------------------------------------------------------------------
(* task/task.rs, task/mod.rs : TaskControlBlock and TaskManager *)

\* crate::timer::get_time_us
get_time_us == clock

\* the syscall ids whose counters are kept (system_call_record is indexed by id)
SyscallIds == 0..MaxSyscallId

\* TaskStatsInfo of a new task
TaskStatsInfo_new ==
    [first_run_time |-> 0, system_call_record |-> [id \in SyscallIds |-> 0]]

\* TaskStatsInfo::get_info
get_info(stats) == <<stats.system_call_record, stats.first_run_time>>

\* TaskControlBlock::new
TaskControlBlock_new(app_id) ==
    [task_status |-> "Ready", stats |-> TaskStatsInfo_new, memory_set |-> from_elf]

\* lazy_static TASK_MANAGER for num_app applications
TaskManager_new(num_app) ==
    [num_app |-> num_app,
     tasks |-> [i \in 0..(num_app - 1) |-> TaskControlBlock_new(i)],
     current_task |-> 0]

\* TaskManager::run_first_task up to the switch into task 0
TaskManager_run_first_task(m) ==
    [m EXCEPT !.tasks[0].task_status = "Running",
              !.tasks[0].stats.first_run_time = get_time_us]

\* mark_current_suspended that leaves the status as it is
mark_current_suspended_keeps_status(m) == m

\* mark_current_suspended that writes the status mark_current_exited writes
mark_current_suspended_as_exited(m) ==
    [m EXCEPT !.tasks[m.current_task].task_status = "Exited"]

\* TaskManager::mark_current_suspended
mark_current_suspended(m) ==
    [m EXCEPT !.tasks[m.current_task].task_status = "Ready"]

\* mark_current_exited that writes the status mark_current_suspended writes
mark_current_exited_as_ready(m) ==
    [m EXCEPT !.tasks[m.current_task].task_status = "Ready"]

\* TaskManager::mark_current_exited
mark_current_exited(m) ==
    [m EXCEPT !.tasks[m.current_task].task_status = "Exited"]

\* the first element of current+1 .. current+num_app that find() accepts
RECURSIVE find_from(_, _, _)
find_from(m, id, last) ==
    IF id > last THEN None
    ELSE IF m.tasks[id % m.num_app].task_status = "Ready" THEN id % m.num_app
    ELSE find_from(m, id + 1, last)

\* find_next_task whose range starts at current instead of current + 1
find_next_task_from_current(m) ==
    find_from(m, m.current_task, m.current_task + m.num_app - 1)

\* find_next_task that takes the next index whatever its status
find_next_task_any_status(m) == (m.current_task + 1) % m.num_app

\* find_next_task whose range ends before it comes back to current
find_next_task_excludes_current(m) ==
    find_from(m, m.current_task + 1, m.current_task + m.num_app - 1)

\* find_next_task that scans the task list from its beginning
find_next_task_from_zero(m) == find_from(m, 0, m.num_app - 1)

\* TaskManager::find_next_task
find_next_task(m) ==
    find_from(m, m.current_task + 1, m.current_task + m.num_app)

\* run_next_task without the assignment inner.current_task = next
run_next_task_keeps_current(m) ==
    LET next == find_next_task(m)
    IN  IF next # None
        THEN [panic |-> NoPanic,
              m |-> [m EXCEPT !.tasks[next].task_status = "Running",
                              !.tasks[next].stats.first_run_time = get_time_us]]
        ELSE [panic |-> AllCompletedPanic, m |-> m]

\* TaskManager::run_next_task up to the switch or the panic
run_next_task(m) ==
    LET next == find_next_task(m)
    IN  IF next # None
        THEN [panic |-> NoPanic,
              m |-> [m EXCEPT !.tasks[next].task_status = "Running",
                              !.current_task = next,
                              !.tasks[next].stats.first_run_time = get_time_us]]
        ELSE [panic |-> AllCompletedPanic, m |-> m]

\* TaskManager::get_current_task_info : (status, syscall_record, total_time)
get_current_task_info(m) ==
    LET info == get_info(m.tasks[m.current_task].stats)
    IN  <<m.tasks[m.current_task].task_status, info[1], info[2]>>

\* suspend_current_and_run_next
suspend_current_and_run_next(m) == run_next_task(mark_current_suspended(m))

\* exit_current_and_run_next
exit_current_and_run_next(m) == run_next_task(mark_current_exited(m))

\* the pages start_va.0 .. end_va.0 that TaskManager::mmap and unmap walk
page_range(start, len) == {i \in VPNs : floor(start) <= i /\ i < ceil(start + len)}

\* TaskManager::mmap without the loop that looks for a mapped page
TaskManager_mmap_no_overlap_check(m, start, len, port) ==
    LET memory_set == m.tasks[m.current_task].memory_set
        permission == from_bits_of_port(port)
    IN  IF permission = None
        THEN [ret |-> -1, panic |-> UnwrapPanic, m |-> m]
        ELSE [ret |-> 0, panic |-> NoPanic,
              m |-> [m EXCEPT !.tasks[m.current_task].memory_set =
                        insert_framed_area(memory_set, start, start + len, permission)]]

\* TaskManager::mmap that works on tasks[0] instead of tasks[current_task]
TaskManager_mmap_into_first_task(m, start, len, port) ==
    LET memory_set == m.tasks[0].memory_set
        permission == from_bits_of_port(port)
    IN  IF \E i \in page_range(start, len) : is_all_map(memory_set, i)
        THEN [ret |-> -1, panic |-> NoPanic, m |-> m]
        ELSE IF permission = None
        THEN [ret |-> -1, panic |-> UnwrapPanic, m |-> m]
        ELSE [ret |-> 0, panic |-> NoPanic,
              m |-> [m EXCEPT !.tasks[0].memory_set =
                        insert_framed_area(memory_set, start, start + len, permission)]]

\* TaskManager::mmap
TaskManager_mmap(m, start, len, port) ==
    LET memory_set == m.tasks[m.current_task].memory_set
        permission == from_bits_of_port(port)
    IN  IF \E i \in page_range(start, len) : is_all_map(memory_set, i)
        THEN [ret |-> -1, panic |-> NoPanic, m |-> m]
        ELSE IF permission = None
        THEN [ret |-> -1, panic |-> UnwrapPanic, m |-> m]
        ELSE [ret |-> 0, panic |-> NoPanic,
              m |-> [m EXCEPT !.tasks[m.current_task].memory_set =
                        insert_framed_area(memory_set, start, start + len, permission)]]

\* the second loop of TaskManager::unmap : remove_map_area for each page
RECURSIVE remove_pages(_, _, _)
remove_pages(memory_set, i, end_va) ==
    IF i >= end_va THEN memory_set
    ELSE remove_pages(remove_map_area(memory_set, i), i + 1, end_va)

\* the pages removed by an unmap that checks and removes in one loop
RECURSIVE remove_until_unmapped(_, _, _)
remove_until_unmapped(memory_set, i, end_va) ==
    IF i >= end_va \/ i \notin VPNs \/ is_not_all_map(memory_set, i) THEN memory_set
    ELSE remove_until_unmapped(remove_map_area(memory_set, i), i + 1, end_va)

\* TaskManager::unmap that removes pages until it meets an unmapped one
TaskManager_unmap_single_loop(m, start, len) ==
    LET memory_set == m.tasks[m.current_task].memory_set
    IN  [ret |-> IF \E i \in page_range(start, len) : is_not_all_map(memory_set, i)
                 THEN -1 ELSE 0,
         m |-> [m EXCEPT !.tasks[m.current_task].memory_set =
                   remove_until_unmapped(memory_set, floor(start), ceil(start + len))]]

\* TaskManager::unmap
TaskManager_unmap(m, start, len) ==
    LET memory_set == m.tasks[m.current_task].memory_set
    IN  IF \E i \in page_range(start, len) : is_not_all_map(memory_set, i)
        THEN [ret |-> -1, m |-> m]
        ELSE [ret |-> 0,
              m |-> [m EXCEPT !.tasks[m.current_task].memory_set =
                        remove_pages(memory_set, floor(start), ceil(start + len))]]

----------------------------------------------------------------------------
(* syscall/process.rs *)

\* sys_mmap that rounds the length up even when it is a page multiple
do_sys_mmap_always_rounds(m, start, len, port) ==
    LET align_len == (len \div PAGE_SIZE + 1) * PAGE_SIZE
    IN  IF start % PAGE_SIZE # 0
        THEN [ret |-> -1, inner |-> None, panic |-> NoPanic, m |-> m]
        ELSE IF port \div 8 # 0 \/ port % 8 = 0
        THEN [ret |-> -1, inner |-> None, panic |-> NoPanic, m |-> m]
        ELSE LET r == TaskManager_mmap(m, start, align_len, port)
             IN  [ret |-> r.ret, inner |-> r.ret, panic |-> r.panic, m |-> r.m]

\* sys_mmap without the check of the port bits
do_sys_mmap_no_port_check(m, start, len, port) ==
    LET align_len == IF len % PAGE_SIZE # 0
                     THEN (len \div PAGE_SIZE + 1) * PAGE_SIZE ELSE len
    IN  IF start % PAGE_SIZE # 0
        THEN [ret |-> -1, inner |-> None, panic |-> NoPanic, m |-> m]
        ELSE LET r == TaskManager_mmap(m, start, align_len, port)
             IN  [ret |-> r.ret, inner |-> r.ret, panic |-> r.panic, m |-> r.m]

\* sys_mmap : the value returned, the value TaskManager::mmap returned (None
\* if it was not called), a panic if any, and the task manager after it
do_sys_mmap(m, start, len, port) ==
    LET align_len == IF len % PAGE_SIZE # 0
                     THEN (len \div PAGE_SIZE + 1) * PAGE_SIZE ELSE len
    IN  IF start % PAGE_SIZE # 0
        THEN [ret |-> -1, inner |-> None, panic |-> NoPanic, m |-> m]
        ELSE IF port \div 8 # 0 \/ port % 8 = 0
        THEN [ret |-> -1, inner |-> None, panic |-> NoPanic, m |-> m]
        ELSE LET r == TaskManager_mmap(m, start, align_len, port)
             IN  [ret |-> r.ret, inner |-> r.ret, panic |-> r.panic, m |-> r.m]

\* sys_task_info : the value returned and the TaskInfo written through ti
do_sys_task_info(m) ==
    LET info == get_current_task_info(m)
    IN  [ret |-> 0,
         info |-> [status |-> info[1], syscall_times |-> info[2],
                   time |-> info[3] \div 1000]]

\* sys_munmap : the value returned, the value unmap returned (None if it was
\* not called), and the task manager after it
do_sys_munmap(m, start, len) ==
    IF start % PAGE_SIZE # 0 \/ len % PAGE_SIZE # 0
    THEN [ret |-> -1, inner |-> None, m |-> m]
    ELSE LET r == TaskManager_unmap(m, start, len)
         IN  [ret |-> 0, inner |-> r.ret, m |-> r.m]

----------------------------------------------------------------------------
(* Initial states *)

NoCall == [op |-> "init", arg |-> None, ret |-> None,
           pre |-> StackFrameAllocator_init(0, 0), held |-> EmptyBag]

NoSysCall == [op |-> "boot", ret |-> None, inner |-> None, mixed |-> FALSE,
              round_trip |-> FALSE, before |-> from_elf]

NoMap == [valid |-> FALSE, start |-> 0, len |-> 0, before |-> from_elf]

\* no TaskInfo has been written
NoTaskInfo == [written |-> FALSE, status |-> "UnInit", time |-> 0, clock |-> 0,
               task |-> 0]

\* the timer at boot, no task scheduled yet, the exclusive access free
InfoIdle(num_app) ==
    /\ clock = 0
    /\ first_sched = [i \in 0..(num_app - 1) |-> None]
    /\ task_info = NoTaskInfo
    /\ borrowed = FALSE
    /\ kpath = <<>>
    /\ inside = FALSE
    /\ waiting = [i \in 0..(num_app - 1) |-> 0]

\* the task manager before any application is looked at
TaskIdle ==
    /\ TASK_MANAGER = TaskManager_new(1)
    /\ started = FALSE
    /\ sys_call = NoSysCall
    /\ map_hist = NoMap
    /\ yields = 0
    /\ InfoIdle(1)

\* the frame allocator left alone
FrameIdle ==
    /\ FRAME_ALLOCATOR = StackFrameAllocator_init(0, 0)
    /\ trackers = EmptyBag
    /\ frame_call = NoCall
    /\ burst = [pool |-> <<>>, current |-> 0, freed |-> None,
                all_released |-> FALSE, got |-> <<>>]

\* FRAME_ALLOCATOR after init_frame_allocator: [ceil(ekernel), floor(MEMORY_END))
FrameInit ==
    /\ \E l \in 0..MaxBase : \E n \in 0..MaxFrames :
          /\ FRAME_ALLOCATOR = StackFrameAllocator_init(l, l + n)
          /\ burst = [pool |-> <<>>, current |-> l, freed |-> None,
                      all_released |-> FALSE, got |-> <<>>]
    /\ trackers = EmptyBag
    /\ panicked = NoPanic
    /\ frame_call = NoCall
    /\ TaskIdle

\* TASK_MANAGER after its lazy_static initialisation, for num_app <= n applications
TaskInit(n) ==
    /\ \E num_app \in 1..n :
          /\ TASK_MANAGER = TaskManager_new(num_app)
          /\ InfoIdle(num_app)
    /\ started = FALSE
    /\ panicked = NoPanic
    /\ sys_call = NoSysCall
    /\ map_hist = NoMap
    /\ yields = 0
    /\ FrameIdle

----------------------------------------------------------------------------
(* mm/frame_allocator.rs : frame_alloc, FrameTracker *)

\* frame_alloc : alloc, and a FrameTracker over the frame when there is one
frame_alloc ==
    /\ panicked = NoPanic
    /\ LET r == alloc(FRAME_ALLOCATOR) IN
          /\ FRAME_ALLOCATOR' = r.a
          /\ trackers' = IF r.ret = None THEN trackers
                         ELSE trackers (+) SetToBag({r.ret})
          /\ frame_call' = [op |-> "alloc", arg |-> None, ret |-> r.ret,
                            pre |-> FRAME_ALLOCATOR, held |-> trackers]
          /\ burst' = IF r.ret = None THEN burst
                      ELSE [burst EXCEPT !.got = Append(@, r.ret)]
    /\ UNCHANGED <<panicked, taskVars>>

\* impl Drop for FrameTracker : frame_dealloc(self.ppn), the tracker is gone
drop_FrameTracker(ppn) ==
    /\ panicked = NoPanic
    /\ BagIn(ppn, trackers)
    /\ LET d == dealloc(FRAME_ALLOCATOR, ppn) IN
          /\ FRAME_ALLOCATOR' = d.a
          /\ panicked' = d.panic
          /\ trackers' = trackers (-) SetToBag({ppn})
          /\ frame_call' = [op |-> "dealloc", arg |-> ppn, ret |-> None,
                            pre |-> FRAME_ALLOCATOR, held |-> trackers]
          /\ burst' = [pool |-> d.a.recycled, current |-> d.a.current,
                       freed |-> ppn,
                       all_released |-> (trackers (-) SetToBag({ppn})) = EmptyBag,
                       got |-> <<>>]
    /\ UNCHANGED taskVars

\* StackFrameAllocator::alloc called on the allocator itself
alloc_call ==
    /\ panicked = NoPanic
    /\ LET r == alloc(FRAME_ALLOCATOR) IN
          /\ FRAME_ALLOCATOR' = r.a
          /\ frame_call' = [op |-> "alloc", arg |-> None, ret |-> r.ret,
                            pre |-> FRAME_ALLOCATOR, held |-> trackers]
    /\ UNCHANGED <<trackers, panicked, burst, taskVars>>

\* StackFrameAllocator::dealloc called on the allocator itself with any ppn
dealloc_call(ppn) ==
    /\ panicked = NoPanic
    /\ LET d == dealloc(FRAME_ALLOCATOR, ppn) IN
          /\ FRAME_ALLOCATOR' = d.a
          /\ panicked' = d.panic
          /\ frame_call' = [op |-> "dealloc", arg |-> ppn, ret |-> None,
                            pre |-> FRAME_ALLOCATOR, held |-> trackers]
    /\ UNCHANGED <<trackers, burst, taskVars>>

FrameNext ==
    \/ frame_alloc
    \/ \E ppn \in 0..(MaxBase + MaxFrames) : drop_FrameTracker(ppn)

\* frames handed out through frame_alloc and released by dropping the trackers
FrameSpec == FrameInit /\ [][FrameNext]_vars

AllocNext ==
    \/ alloc_call
    \/ \E ppn \in 0..(MaxBase + MaxFrames) : dealloc_call(ppn)

\* the StackFrameAllocator alone, alloc and dealloc called with any argument
AllocSpec == FrameInit /\ [][AllocNext]_vars

----------------------------------------------------------------------------
(* task/mod.rs, syscall/process.rs : the calls into the task manager *)

\* the arguments the calls are tried with
Starts == {vpn * PAGE_SIZE : vpn \in VPNs} \cup {1}
Lens == {k * PAGE_SIZE : k \in 0..(MaxVpn + 1)} \cup {1}
Ports == {0, 3, 8}

\* the rounded region lies in the modelled window of the address space
InWindow(start, len) == ceil(start + len) <= MaxVpn + 1

\* the calls of sys_mmap that are made: every region of the window with the
\* ports sys_mmap accepts; a misaligned start or a port it rejects with a
\* length of one page
MmapArgs ==
    {a \in Starts \X Lens \X Ports :
        /\ InWindow(a[1], a[2])
        /\ \/ a[1] % PAGE_SIZE = 0 /\ a[3] \div 8 = 0 /\ a[3] % 8 # 0
           \/ a[2] = PAGE_SIZE}

\* the calls of sys_munmap that are made: every region of the window; a
\* misaligned start with a length of one page
MunmapArgs ==
    {a \in Starts \X Lens :
        /\ InWindow(a[1], a[2])
        /\ a[1] % PAGE_SIZE = 0 \/ a[2] = PAGE_SIZE}

\* the address space of the task that is running
CurrentMemorySet == TASK_MANAGER.tasks[TASK_MANAGER.current_task].memory_set

\* the pages of [start, start + len) once start is rounded down and the end
\* is rounded up to a page boundary: those that begin before the end and end
\* after the start
Region(start, len) ==
    {vpn \in VPNs : /\ vpn * PAGE_SIZE < start + len
                     /\ (vpn + 1) * PAGE_SIZE > start}

\* the region holds a mapped page and a page that is not mapped
MixedRegion(memory_set, start, len) ==
    /\ \E vpn \in Region(start, len) : memory_set[vpn] # Unmapped
    /\ \E vpn \in Region(start, len) : memory_set[vpn] = Unmapped

\* run_first_task, called once by the boot code
run_first_task ==
    /\ ~started
    /\ panicked = NoPanic
    /\ TASK_MANAGER' = TaskManager_run_first_task(TASK_MANAGER)
    /\ started' = TRUE
    /\ sys_call' = [NoSysCall EXCEPT !.op = "run_first_task"]
    /\ map_hist' = NoMap
    /\ UNCHANGED <<panicked, yields, frameVars, infoVars, lockVars, waiting>>

\* sys_yield by the running task (suspend_current_and_run_next)
sys_yield ==
    /\ started
    /\ panicked = NoPanic
    /\ \E r \in {suspend_current_and_run_next(TASK_MANAGER)} :
          /\ TASK_MANAGER' = r.m
          /\ panicked' = r.panic
          /\ sys_call' = [NoSysCall EXCEPT !.op = "yield",
                             !.ret = IF r.panic = NoPanic THEN 0 ELSE None]
    /\ map_hist' = NoMap
    /\ UNCHANGED <<started, frameVars, infoVars, lockVars>>

sys_yield_counted ==
    /\ yields < MaxYields
    /\ sys_yield
    /\ yields' = yields + 1
    /\ UNCHANGED waiting

sys_yield_uncounted ==
    /\ sys_yield
    /\ UNCHANGED <<yields, waiting>>

\* sys_exit by the running task (exit_current_and_run_next)
sys_exit ==
    /\ started
    /\ panicked = NoPanic
    /\ \E r \in {exit_current_and_run_next(TASK_MANAGER)} :
          /\ TASK_MANAGER' = r.m
          /\ panicked' = r.panic
    /\ sys_call' = [NoSysCall EXCEPT !.op = "exit"]
    /\ map_hist' = NoMap
    /\ UNCHANGED <<started, yields, frameVars, infoVars, lockVars, waiting>>

\* sys_mmap by the running task
sys_mmap(start, len, port) ==
    /\ started
    /\ panicked = NoPanic
    /\ \E r \in {do_sys_mmap(TASK_MANAGER, start, len, port)} :
          /\ TASK_MANAGER' = r.m
          /\ panicked' = r.panic
          /\ sys_call' = [NoSysCall EXCEPT !.op = "mmap",
                             !.ret = IF r.panic = NoPanic THEN r.ret ELSE None,
                             !.inner = IF r.panic = NoPanic THEN r.inner ELSE None]
          /\ map_hist' = IF r.panic = NoPanic /\ r.ret = 0
                            /\ len % PAGE_SIZE = 0 /\ len > 0
                         THEN [valid |-> TRUE, start |-> start, len |-> len,
                               before |-> CurrentMemorySet]
                         ELSE NoMap
    /\ UNCHANGED <<started, yields, frameVars, infoVars, lockVars, waiting>>

\* sys_munmap by the running task
sys_munmap(start, len) ==
    /\ started
    /\ panicked = NoPanic
    /\ \E r \in {do_sys_munmap(TASK_MANAGER, start, len)} :
       \E round_trip \in {/\ map_hist.valid
                           /\ map_hist.start = start /\ map_hist.len = len
                           /\ len % PAGE_SIZE = 0 /\ len > 0} :
          /\ TASK_MANAGER' = r.m
          /\ sys_call' = [op |-> "munmap", ret |-> r.ret, inner |-> r.inner,
                          mixed |-> MixedRegion(CurrentMemorySet, start, len),
                          round_trip |-> round_trip,
                          before |-> IF round_trip THEN map_hist.before ELSE from_elf]
    /\ map_hist' = NoMap
    /\ UNCHANGED <<started, panicked, yields, frameVars, infoVars, lockVars, waiting>>

SchedNext ==
    \/ run_first_task
    \/ sys_yield_counted
    \/ sys_exit

\* the scheduler alone: run_first_task, then yields (counted) and exits
SchedSpec == TaskInit(MaxApp) /\ [][SchedNext]_vars

Next ==
    \/ run_first_task
    \/ sys_yield_uncounted
    \/ sys_exit
    \/ \E a \in MmapArgs : sys_mmap(a[1], a[2], a[3])
    \/ \E a \in MunmapArgs : sys_munmap(a[1], a[2])

\* the task manager under the system calls of the running task
Spec == TaskInit(MaxMapApp) /\ [][Next]_vars

\* sys_mmap by the running task, only the call and its result remembered
sys_mmap_call(start, len, port) ==
    /\ started
    /\ panicked = NoPanic
    /\ \E r \in {do_sys_mmap(TASK_MANAGER, start, len, port)} :
          /\ TASK_MANAGER' = r.m
          /\ panicked' = r.panic
          /\ sys_call' = [NoSysCall EXCEPT !.op = "mmap",
                             !.ret = IF r.panic = NoPanic THEN r.ret ELSE None,
                             !.inner = IF r.panic = NoPanic THEN r.inner ELSE None]
    /\ UNCHANGED <<started, map_hist, yields, frameVars, infoVars, lockVars, waiting>>

\* sys_munmap by the running task, only the call and its result remembered
sys_munmap_call(start, len) ==
    /\ started
    /\ panicked = NoPanic
    /\ \E r \in {do_sys_munmap(TASK_MANAGER, start, len)} :
          /\ TASK_MANAGER' = r.m
          /\ sys_call' = [NoSysCall EXCEPT !.op = "munmap",
                             !.ret = r.ret, !.inner = r.inner]
    /\ UNCHANGED <<started, panicked, map_hist, yields, frameVars, infoVars, lockVars, waiting>>

MapNext ==
    \/ run_first_task
    \/ sys_yield_uncounted
    \/ sys_exit
    \/ \E a \in MmapArgs : sys_mmap_call(a[1], a[2], a[3])
    \/ \E a \in MunmapArgs : sys_munmap_call(a[1], a[2])

\* the same calls as Spec, without the histories of the round trip
MapSpec == TaskInit(MaxMapApp) /\ [][MapNext]_vars

----------------------------------------------------------------------------
(* task/mod.rs, syscall/process.rs : the calls under a running timer *)

\* the timer advances in steps of TickUs microseconds
TickUs == 600

\* time passes
tick ==
    /\ panicked = NoPanic
    /\ clock < MaxTicks * TickUs
    /\ clock' = clock + TickUs
    /\ UNCHANGED <<TASK_MANAGER, started, panicked, sys_call, map_hist, yields,
                   first_sched, task_info, frameVars, lockVars, waiting>>

\* the clock of the first switch into the task that runs after a switch
note_first_sched(m) ==
    IF first_sched[m.current_task] = None
    THEN [first_sched EXCEPT ![m.current_task] = clock]
    ELSE first_sched

\* run_first_task, the time of the switch into task 0 remembered
run_first_task_timed ==
    /\ ~started
    /\ panicked = NoPanic
    /\ TASK_MANAGER' = TaskManager_run_first_task(TASK_MANAGER)
    /\ started' = TRUE
    /\ sys_call' = [NoSysCall EXCEPT !.op = "run_first_task"]
    /\ first_sched' = note_first_sched(TASK_MANAGER)
    /\ UNCHANGED <<panicked, map_hist, yields, clock, task_info, frameVars,
                   lockVars, waiting>>

\* sys_yield, the time of a first switch into the next task remembered
sys_yield_timed ==
    /\ started
    /\ panicked = NoPanic
    /\ \E r \in {suspend_current_and_run_next(TASK_MANAGER)} :
          /\ TASK_MANAGER' = r.m
          /\ panicked' = r.panic
          /\ sys_call' = [NoSysCall EXCEPT !.op = "yield",
                             !.ret = IF r.panic = NoPanic THEN 0 ELSE None]
          /\ first_sched' = IF r.panic = NoPanic THEN note_first_sched(r.m)
                            ELSE first_sched
    /\ UNCHANGED <<started, map_hist, yields, clock, task_info, frameVars,
                   lockVars, waiting>>

\* sys_exit, the time of a first switch into the next task remembered
sys_exit_timed ==
    /\ started
    /\ panicked = NoPanic
    /\ \E r \in {exit_current_and_run_next(TASK_MANAGER)} :
          /\ TASK_MANAGER' = r.m
          /\ panicked' = r.panic
          /\ first_sched' = IF r.panic = NoPanic THEN note_first_sched(r.m)
                            ELSE first_sched
    /\ sys_call' = [NoSysCall EXCEPT !.op = "exit"]
    /\ UNCHANGED <<started, map_hist, yields, clock, task_info, frameVars,
                   lockVars, waiting>>

\* sys_task_info by the running task, ti an address its page table resolves
sys_task_info ==
    /\ started
    /\ panicked = NoPanic
    /\ \E r \in {do_sys_task_info(TASK_MANAGER)} :
          /\ task_info' = [written |-> TRUE, status |-> r.info.status,
                           time |-> r.info.time, clock |-> clock,
                           task |-> TASK_MANAGER.current_task]
          /\ sys_call' = [NoSysCall EXCEPT !.op = "task_info", !.ret = r.ret]
    /\ UNCHANGED <<TASK_MANAGER, started, panicked, map_hist, yields, clock,
                   first_sched, frameVars, lockVars, waiting>>

InfoNext ==
    \/ tick
    \/ run_first_task_timed
    \/ sys_yield_timed
    \/ sys_exit_timed
    \/ sys_task_info

\* the scheduler and sys_task_info while the timer runs
InfoSpec == TaskInit(MaxInfoApp) /\ [][InfoNext]_vars

----------------------------------------------------------------------------
(* task/mod.rs, syscall/process.rs : the scheduler when every task goes on *)

\* after a switch: a task that was Ready and still is has been passed by once
\* more (counted up to MaxApp); a task that has just become Ready or that
\* is not Ready has not waited
note_switch(before, after) ==
    [i \in DOMAIN waiting |->
        IF /\ after.tasks[i].task_status = "Ready"
           /\ before.tasks[i].task_status = "Ready"
        THEN IF waiting[i] < MaxApp THEN waiting[i] + 1 ELSE waiting[i]
        ELSE 0]

\* sys_yield, the tasks the switch passed by counted; yields is counted
\* modulo 2, so that a yield that comes back to its caller is a step too
sys_yield_fair ==
    /\ sys_yield
    /\ waiting' = IF panicked' = NoPanic
                  THEN note_switch(TASK_MANAGER, TASK_MANAGER')
                  ELSE waiting
    /\ yields' = (yields + 1) % 2

\* sys_exit, the tasks the switch passed by counted
sys_exit_fair ==
    /\ started
    /\ panicked = NoPanic
    /\ \E r \in {exit_current_and_run_next(TASK_MANAGER)} :
          /\ TASK_MANAGER' = r.m
          /\ panicked' = r.panic
          /\ waiting' = IF r.panic = NoPanic
                        THEN note_switch(TASK_MANAGER, r.m)
                        ELSE waiting
    /\ sys_call' = [NoSysCall EXCEPT !.op = "exit"]
    /\ map_hist' = NoMap
    /\ UNCHANGED <<started, yields, frameVars, infoVars, lockVars>>

FairNext ==
    \/ run_first_task
    \/ sys_yield_fair
    \/ sys_exit_fair

\* the scheduler with the boot code calling run_first_task and every task
\* that runs going on to a sys_yield or a sys_exit
FairSpec ==
    /\ TaskInit(MaxApp)
    /\ [][FairNext]_vars
    /\ WF_vars(run_first_task)
    /\ WF_vars(sys_yield_fair \/ sys_exit_fair)

----------------------------------------------------------------------------
(* task/mod.rs : the exclusive access to TASK_MANAGER.inner, method by method *)

\* a call of a TaskManager method that the kernel has still to make
Call(fn, arg) == [fn |-> fn, arg |-> arg]

\* the methods that take the exclusive access
Methods == {"run_first_task", "mark_current_suspended", "mark_current_exited",
            "find_next_task", "run_next_task", "get_current_task_info",
            "get_current_token", "mmap", "unmap"}

\* the calls of sys_mmap and sys_munmap made here: regions of one page
PageMmapArgs == {a \in MmapArgs : a[2] = PAGE_SIZE}
PageMunmapArgs == {a \in MunmapArgs : a[2] = PAGE_SIZE}

\* a run_next_task that goes into __switch with inner still alive
keep_inner(held) == held

\* drop(inner) before __switch in run_first_task and run_next_task
drop_inner(held) == FALSE

\* the borrow after the method has returned or reached its __switch: the
\* scheduling methods drop inner by hand, the others at the end of their scope
after_method(fn, held) ==
    IF fn \in {"run_first_task", "run_next_task"} THEN drop_inner(held) ELSE FALSE

\* the task manager after the body of the method
method_effect(m, call) ==
    CASE call.fn = "run_first_task" -> TaskManager_run_first_task(m)
      [] call.fn = "mark_current_suspended" -> mark_current_suspended(m)
      [] call.fn = "mark_current_exited" -> mark_current_exited(m)
      [] call.fn = "run_next_task" -> run_next_task(m).m
      [] call.fn = "mmap" ->
            do_sys_mmap(m, call.arg[1], call.arg[2], call.arg[3]).m
      [] call.fn = "unmap" -> do_sys_munmap(m, call.arg[1], call.arg[2]).m
      [] OTHER -> m

\* the panic the method ends in, if any: run_next_task when find_next_task
\* found no task, mmap when the permission bits are no MapPermission
method_panic(m, call) ==
    CASE call.fn = "find_next_task" ->
            IF find_next_task(m) = None THEN AllCompletedPanic ELSE NoPanic
      [] call.fn = "mmap" ->
            do_sys_mmap(m, call.arg[1], call.arg[2], call.arg[3]).panic
      [] OTHER -> NoPanic

lockIdle == UNCHANGED <<sys_call, map_hist, yields, infoVars, frameVars, waiting>>

\* the boot code calls run_first_task
call_run_first_task ==
    /\ ~started
    /\ panicked = NoPanic
    /\ kpath = <<>>
    /\ started' = TRUE
    /\ kpath' = <<Call("run_first_task", <<>>), Call("__switch", <<>>)>>
    /\ UNCHANGED <<TASK_MANAGER, panicked, borrowed, inside>>
    /\ lockIdle

\* the running task traps into the kernel with a system call
trap(path) ==
    /\ panicked = NoPanic
    /\ kpath = <<>>
    /\ kpath' = path
    /\ UNCHANGED <<TASK_MANAGER, started, panicked, borrowed, inside>>
    /\ lockIdle

trap_sys_yield ==
    /\ started
    /\ trap(<<Call("mark_current_suspended", <<>>),
              Call("find_next_task", <<>>),
              Call("run_next_task", <<>>), Call("__switch", <<>>)>>)

trap_sys_exit ==
    /\ started
    /\ trap(<<Call("mark_current_exited", <<>>),
              Call("find_next_task", <<>>),
              Call("run_next_task", <<>>), Call("__switch", <<>>)>>)

\* sys_mmap calls mmap unless it rejects its arguments
trap_sys_mmap(start, len, port) ==
    /\ started
    /\ trap(IF do_sys_mmap(TASK_MANAGER, start, len, port).inner = None
            THEN <<>> ELSE <<Call("mmap", <<start, len, port>>)>>)

\* sys_munmap calls unmap unless it rejects its arguments
trap_sys_munmap(start, len) ==
    /\ started
    /\ trap(IF do_sys_munmap(TASK_MANAGER, start, len).inner = None
            THEN <<>> ELSE <<Call("unmap", <<start, len>>)>>)

trap_sys_task_info ==
    /\ started
    /\ trap(<<Call("get_current_task_info", <<>>),
              Call("get_current_token", <<>>)>>)

\* self.inner.exclusive_access() at the top of the method
exclusive_access ==
    /\ panicked = NoPanic
    /\ kpath # <<>>
    /\ Head(kpath).fn \in Methods
    /\ ~inside
    /\ IF borrowed
       THEN /\ panicked' = AlreadyHeldPanic
            /\ UNCHANGED <<borrowed, inside>>
       ELSE /\ borrowed' = TRUE
            /\ inside' = TRUE
            /\ UNCHANGED panicked
    /\ UNCHANGED <<TASK_MANAGER, started, kpath>>
    /\ lockIdle

\* the body of the method up to its return, its panic or its __switch
method_body ==
    /\ panicked = NoPanic
    /\ kpath # <<>>
    /\ inside
    /\ TASK_MANAGER' = method_effect(TASK_MANAGER, Head(kpath))
    /\ panicked' = method_panic(TASK_MANAGER, Head(kpath))
    /\ borrowed' = after_method(Head(kpath).fn, borrowed)
    /\ inside' = FALSE
    /\ kpath' = Tail(kpath)
    /\ UNCHANGED started
    /\ lockIdle

\* __switch : the kernel goes on in the task switched to, back to user mode
switch ==
    /\ panicked = NoPanic
    /\ kpath # <<>>
    /\ Head(kpath).fn = "__switch"
    /\ kpath' = Tail(kpath)
    /\ UNCHANGED <<TASK_MANAGER, started, panicked, borrowed, inside>>
    /\ lockIdle

LockNext ==
    \/ call_run_first_task
    \/ trap_sys_yield
    \/ trap_sys_exit
    \/ \E a \in PageMmapArgs : trap_sys_mmap(a[1], a[2], a[3])
    \/ \E a \in PageMunmapArgs : trap_sys_munmap(a[1], a[2])
    \/ trap_sys_task_info
    \/ exclusive_access
    \/ method_body
    \/ switch

\* the system calls taken apart into the TaskManager methods they call
LockSpec == TaskInit(MaxInfoApp) /\ [][LockNext]_vars

----------------------------------------------------------------------------
(* Properties of the frame allocator *)

\* C1: under every sequence of frame_alloc calls and FrameTracker drops, no
\* two live FrameTrackers hold the same physical page number.
C1_NoSharedFrame ==
    \A ppn \in BagToSet(trackers) : CopiesIn(ppn, trackers) = 1

\* a recycled frame was handed out again while another tracker is live
C1_Witness ==
    /\ frame_call.op = "alloc"
    /\ frame_call.pre.recycled # <<>>
    /\ frame_call.ret # None
    /\ BagCardinality(trackers) >= 2

\* C2: dealloc(n) panics if n >= current or n is already in recycled; in
\* every other case it does not panic and appends n to the end of recycled,
\* leaving current and end unchanged.
C2_DeallocContract ==
    frame_call.op = "dealloc" =>
        LET n   == frame_call.arg
            pre == frame_call.pre
        IN  IF n >= pre.current \/ n \in Range(pre.recycled)
            THEN panicked = NotAllocatedPanic
            ELSE /\ panicked = NoPanic
                 /\ FRAME_ALLOCATOR.recycled = pre.recycled \o <<n>>
                 /\ FRAME_ALLOCATOR.current = pre.current
                 /\ FRAME_ALLOCATOR.end = pre.end

\* a double free: dealloc of an allocated number that is already recycled
C2_Witness ==
    /\ frame_call.op = "dealloc"
    /\ frame_call.arg < frame_call.pre.current
    /\ frame_call.arg \in Range(frame_call.pre.recycled)
    /\ panicked = NotAllocatedPanic

\* C3: reuse is LIFO. alloc returns the most recently released frame still in
\* recycled and leaves current alone; it takes current (advancing it by one)
\* only when recycled is empty; the first alloc after releasing X returns X;
\* after k frames are allocated and all released, the next k allocations
\* return exactly those k frames and current has not advanced.
C3_LifoReuse ==
    LET pre  == frame_call.pre
        pool == burst.pool
        got  == burst.got
    IN  /\ (frame_call.op = "alloc" /\ pre.recycled # <<>>) =>
              /\ frame_call.ret = pre.recycled[Len(pre.recycled)]
              /\ FRAME_ALLOCATOR.current = pre.current
              /\ Range(FRAME_ALLOCATOR.recycled) = Range(pre.recycled) \ {frame_call.ret}
        /\ (frame_call.op = "alloc" /\ pre.recycled = <<>> /\ frame_call.ret # None) =>
              /\ frame_call.ret = pre.current
              /\ FRAME_ALLOCATOR.current = pre.current + 1
        /\ (burst.freed # None /\ Len(got) >= 1) => got[1] = burst.freed
        /\ \A j \in 1..Len(got) :
              j <= Len(pool) => got[j] = pool[Len(pool) + 1 - j]
        /\ (burst.all_released /\ Len(got) = Len(pool)) =>
              /\ Range(got) = Range(pool)
              /\ Cardinality(Range(got)) = Len(pool)
              /\ FRAME_ALLOCATOR.current = burst.current

\* three frames were allocated, all released, and allocated again
C3_Witness ==
    /\ burst.all_released
    /\ Len(burst.pool) = 3
    /\ Len(burst.got) = 3

\* C4: alloc (and frame_alloc) returns None exactly when current = end and
\* recycled is empty, and then without a panic and with the allocator and the
\* live trackers unchanged.
C4_ExhaustionNone ==
    frame_call.op = "alloc" =>
        LET pre == frame_call.pre
        IN  /\ (frame_call.ret = None) <=>
                  (pre.current = pre.end /\ pre.recycled = <<>>)
            /\ frame_call.ret = None =>
                  /\ FRAME_ALLOCATOR = pre
                  /\ trackers = frame_call.held
                  /\ panicked = NoPanic

\* every frame of the range is held and frame_alloc came back empty
C4_Witness ==
    /\ frame_call.op = "alloc"
    /\ frame_call.ret = None
    /\ BagCardinality(trackers) >= 2
    /\ FRAME_ALLOCATOR.current = FRAME_ALLOCATOR.end

----------------------------------------------------------------------------
(* Properties of the scheduler *)

TaskIds == 0..(TASK_MANAGER.num_app - 1)

StatusOf(i) == TASK_MANAGER.tasks[i].task_status

RunningTasks == {i \in TaskIds : StatusOf(i) = "Running"}

NoTaskExited == \A i \in TaskIds : StatusOf(i) # "Exited"

\* C5: after run_first_task, whenever a task is executing (the kernel has not
\* stopped), exactly one task has status Running; never do two tasks have it.
C5_OneRunning ==
    /\ Cardinality(RunningTasks) <= 1
    /\ (started /\ panicked = NoPanic) => Cardinality(RunningTasks) = 1

\* a task runs after another one has exited and a third one has yielded
C5_Witness ==
    /\ started /\ panicked = NoPanic
    /\ sys_call.op = "yield"
    /\ \E i \in TaskIds : StatusOf(i) = "Exited"
    /\ \E i \in TaskIds : StatusOf(i) = "Ready"
    /\ Cardinality(RunningTasks) = 1

\* C6: while no task has exited, the task running after k yields is task
\* k mod N: N yields visit 1, 2, ..., N-1, 0 (for N = 3: 1, 2, then 0 again).
C6_RoundRobin ==
    (started /\ panicked = NoPanic /\ NoTaskExited) =>
        /\ TASK_MANAGER.current_task = yields % TASK_MANAGER.num_app
        /\ RunningTasks = {yields % TASK_MANAGER.num_app}

\* three tasks, three yields: task 0 runs again
C6_Witness ==
    /\ TASK_MANAGER.num_app = 3
    /\ yields = 3
    /\ NoTaskExited
    /\ sys_call.op = "yield"
    /\ RunningTasks = {0}

\* C7: once every task is Exited, run_next_task stops the kernel with the
\* panic 'All applications completed!', marks no task Running and switches to
\* no task (current_task stays where it was).
C7_HaltWhenAllExited ==
    /\ (\A i \in TaskIds : StatusOf(i) = "Exited") =>
          /\ panicked = AllCompletedPanic
          /\ sys_call.op = "exit"
    /\ panicked = AllCompletedPanic => RunningTasks = {}
    /\ (started /\ panicked = NoPanic) =>
          LET m == mark_current_exited(TASK_MANAGER)
          IN  (\A i \in TaskIds : m.tasks[i].task_status = "Exited") =>
                 /\ run_next_task(m).panic = AllCompletedPanic
                 /\ run_next_task(m).m = m

\* the last of three tasks has exited and the kernel has stopped
C7_Witness ==
    /\ TASK_MANAGER.num_app = 3
    /\ \A i \in TaskIds : StatusOf(i) = "Exited"
    /\ panicked = AllCompletedPanic

----------------------------------------------------------------------------
(* Properties of mmap and munmap *)

AlignedStarts == {start \in Starts : start % PAGE_SIZE = 0}
AlignedLens == {len \in Lens : len % PAGE_SIZE = 0}
ValidPorts == {port \in Ports : port \div 8 = 0 /\ port % 8 # 0}

\* C8: in every state where a task runs, TaskManager::mmap and sys_mmap over
\* a region that holds a page already mapped in that task's address space
\* return -1 and leave the task manager (so that address space) unchanged;
\* sys_mmap(0x1000, 4096, 3) on an unmapped page succeeds and fails with -1
\* when repeated.
C8_OverlapRejected ==
    (started /\ panicked = NoPanic) =>
        /\ \A start \in Starts, len \in Lens, port \in Ports :
              (/\ InWindow(start, len)
               /\ \E vpn \in Region(start, len) : CurrentMemorySet[vpn] # Unmapped) =>
                 /\ TaskManager_mmap(TASK_MANAGER, start, len, port) =
                       [ret |-> -1, panic |-> NoPanic, m |-> TASK_MANAGER]
                 /\ \E r \in {do_sys_mmap(TASK_MANAGER, start, len, port)} :
                       r.ret = -1 /\ r.panic = NoPanic /\ r.m = TASK_MANAGER
        /\ CurrentMemorySet[1] = Unmapped =>
              \E first \in {do_sys_mmap(TASK_MANAGER, PAGE_SIZE, PAGE_SIZE, 3)} :
              \E again \in {do_sys_mmap(first.m, PAGE_SIZE, PAGE_SIZE, 3)} :
                  /\ first.ret = 0
                  /\ again.ret = -1
                  /\ again.m = first.m

\* TaskManager::mmap was called over a mapped page and sys_mmap returned -1
C8_Witness ==
    /\ sys_call.op = "mmap"
    /\ sys_call.ret = -1
    /\ sys_call.inner = -1
    /\ panicked = NoPanic

\* C9: in every state where a task runs, TaskManager::unmap over a region
\* with a page that is not mapped returns -1 and leaves every mapping
\* unchanged; over a region whose pages are all mapped it returns 0 and
\* removes the mapping of exactly the pages of the region.
C9_UnmapAllOrNothing ==
    (started /\ panicked = NoPanic) =>
        \A start \in Starts, len \in Lens :
            InWindow(start, len) =>
                \E r \in {TaskManager_unmap(TASK_MANAGER, start, len)} :
                    IF \E vpn \in Region(start, len) : CurrentMemorySet[vpn] = Unmapped
                    THEN r = [ret |-> -1, m |-> TASK_MANAGER]
                    ELSE /\ r.ret = 0
                         /\ r.m = [TASK_MANAGER EXCEPT
                                      !.tasks[TASK_MANAGER.current_task].memory_set =
                                          [vpn \in VPNs |->
                                              IF vpn \in Region(start, len)
                                              THEN Unmapped ELSE CurrentMemorySet[vpn]]]

\* unmap was called over a mapped and an unmapped page, and returned -1
C9_Witness ==
    /\ sys_call.op = "munmap"
    /\ sys_call.inner = -1
    /\ sys_call.mixed
    /\ \E vpn \in VPNs : CurrentMemorySet[vpn] # Unmapped

\* C10: sys_mmap of an unmapped page-aligned region followed at once by
\* sys_munmap of the same region returns 0 both times and leaves the task
\* manager, so the task's address space, exactly as it was before the mmap.
C10_RoundTrip ==
    /\ (started /\ panicked = NoPanic) =>
          \A start \in AlignedStarts, len \in AlignedLens, port \in ValidPorts :
              (/\ InWindow(start, len)
               /\ \A vpn \in Region(start, len) : CurrentMemorySet[vpn] = Unmapped) =>
                 \E map \in {do_sys_mmap(TASK_MANAGER, start, len, port)} :
                 \E unmap \in {do_sys_munmap(map.m, start, len)} :
                     /\ map.ret = 0 /\ map.panic = NoPanic
                     /\ \A vpn \in Region(start, len) :
                           map.m.tasks[TASK_MANAGER.current_task].memory_set[vpn] # Unmapped
                     /\ unmap.ret = 0 /\ unmap.inner = 0
                     /\ unmap.m = TASK_MANAGER
    /\ sys_call.round_trip =>
          /\ sys_call.ret = 0 /\ sys_call.inner = 0
          /\ CurrentMemorySet = sys_call.before

\* a region of one or more pages was mapped and unmapped again by the task
C10_Witness ==
    /\ sys_call.op = "munmap"
    /\ sys_call.round_trip
    /\ sys_call.ret = 0

----------------------------------------------------------------------------
(* Properties of the system calls *)

\* C11: sys_munmap with a page-aligned start and length returns what
\* TaskManager::unmap returned: -1 when a page of the region is not mapped,
\* and 0 only when the whole region was mapped and has been removed; with a
\* misaligned start or length it returns -1 and unmap is not called.
C11_MunmapReturnsUnmapResult ==
    sys_call.op = "munmap" =>
        IF sys_call.inner = None
        THEN sys_call.ret = -1
        ELSE sys_call.ret = sys_call.inner

\* C12: sys_mmap returns -1, without calling TaskManager::mmap and without
\* changing the task manager, when start is not page-aligned or port has a
\* bit outside the low three or none of the low three; for every other input
\* it returns what TaskManager::mmap returns, and leaves the task manager as
\* TaskManager::mmap leaves it, for start, the length rounded up to whole
\* pages, and port.
C12_MmapValidation ==
    /\ (started /\ panicked = NoPanic) =>
          \A a \in MmapArgs :
              \E r \in {do_sys_mmap(TASK_MANAGER, a[1], a[2], a[3])} :
                  IF a[1] % PAGE_SIZE # 0 \/ a[3] \notin 1..7
                  THEN r = [ret |-> -1, inner |-> None, panic |-> NoPanic,
                            m |-> TASK_MANAGER]
                  ELSE \E inner \in {TaskManager_mmap(TASK_MANAGER, a[1],
                                          ceil(a[2]) * PAGE_SIZE, a[3])} :
                          /\ r.ret = inner.ret
                          /\ r.inner = inner.ret
                          /\ r.panic = inner.panic
                          /\ r.m = inner.m
    /\ (sys_call.op = "mmap" /\ sys_call.inner = None) =>
          /\ sys_call.ret = -1
          /\ panicked = NoPanic

\* sys_mmap was called with arguments it rejects and returned -1
C12_Witness ==
    /\ sys_call.op = "mmap"
    /\ sys_call.ret = -1
    /\ sys_call.inner = None
    /\ \E vpn \in VPNs : vpn > 0 /\ CurrentMemorySet[vpn] # Unmapped

\* C13: the time sys_task_info writes is the time elapsed since the calling
\* task was first scheduled, in milliseconds: (clock at the call - clock of
\* the first switch into the task) / 1000.
C13_TaskInfoElapsed ==
    task_info.written =>
        task_info.time = (task_info.clock - first_sched[task_info.task]) \div 1000

\* C17: once a task has been scheduled for the first time, no later switch
\* into it changes its first-scheduled timestamp: first_run_time stays the
\* clock of the first switch into the task.
C17_FirstSchedKept ==
    \A i \in 0..(TASK_MANAGER.num_app - 1) :
        first_sched[i] # None =>
            TASK_MANAGER.tasks[i].stats.first_run_time = first_sched[i]

----------------------------------------------------------------------------
(* Properties of the task states *)

\* the status changes a call may make
StatusSteps ==
    {<<"Ready", "Running">>, <<"Running", "Ready">>, <<"Running", "Exited">>}

\* one call: the status changes it makes and what find_next_task may return
C14_Step ==
    /\ \A i \in TaskIds :
          LET old == StatusOf(i)
              new == TASK_MANAGER'.tasks[i].task_status
          IN  /\ (old # new) => (<<old, new>> \in StatusSteps)
              /\ (old = "Running" /\ new = "Ready") => (sys_call'.op = "yield")
              /\ (old = "Running" /\ new = "Exited") => (sys_call'.op = "exit")
              /\ (old = "Exited") => (new = "Exited")
    /\ (sys_call'.op = "exit") =>
          (TASK_MANAGER'.tasks[TASK_MANAGER.current_task].task_status = "Exited")
    /\ (TASK_MANAGER'.current_task # TASK_MANAGER.current_task) =>
          (/\ StatusOf(TASK_MANAGER'.current_task) = "Ready"
           /\ TASK_MANAGER'.tasks[TASK_MANAGER'.current_task].task_status = "Running")
    /\ \A m \in {TASK_MANAGER, mark_current_suspended(TASK_MANAGER),
                  mark_current_exited(TASK_MANAGER)} :
          \/ find_next_task(m) = None
          \/ m.tasks[find_next_task(m)].task_status = "Ready"

\* C14: every task is Ready after construction; every later change of a
\* status is Ready -> Running (the task is scheduled), Running -> Ready (by
\* sys_yield) or Running -> Exited (by sys_exit, which leaves the caller
\* Exited); an Exited task keeps its status for ever, is never returned by
\* find_next_task and never becomes current_task again.
C14_StatusTransitions ==
    /\ \A i \in TaskIds : StatusOf(i) = "Ready"
    /\ [][C14_Step]_vars

\* a yield passed over a task that has exited and switched to the one after
C14_Witness ==
    /\ TASK_MANAGER.num_app >= 3
    /\ sys_call.op = "yield"
    /\ panicked = NoPanic
    /\ \E i \in TaskIds :
          /\ StatusOf(i) = "Exited"
          /\ StatusOf((i + 1) % TASK_MANAGER.num_app) = "Running"
          /\ StatusOf((i + TASK_MANAGER.num_app - 1) % TASK_MANAGER.num_app) = "Ready"

\* C15: find_next_task returns the first index whose status is Ready in the
\* order current+1, current+2, ... taken modulo the number of tasks and ending
\* with current itself, and returns nothing exactly when no task is Ready.
\* It is checked on the task manager as every call leaves it and as
\* run_next_task meets it after mark_current_suspended and mark_current_exited.
C15_FindNextTask ==
    \A m \in {TASK_MANAGER, mark_current_suspended(TASK_MANAGER),
              mark_current_exited(TASK_MANAGER)} :
        LET n == m.num_app
            ready(i) == m.tasks[i].task_status = "Ready"
            next == find_next_task(m)
        IN  /\ (next = None) <=> (\A i \in 0..(n - 1) : ~ready(i))
            /\ (next # None) =>
                  \E k \in 1..n :
                      /\ next = (m.current_task + k) % n
                      /\ ready(next)
                      /\ \A j \in 1..(k - 1) : ~ready((m.current_task + j) % n)

\* the only task that has not exited yielded and was selected again
C15_Witness ==
    /\ TASK_MANAGER.num_app >= 3
    /\ sys_call.op = "yield"
    /\ panicked = NoPanic
    /\ StatusOf(TASK_MANAGER.current_task) = "Running"
    /\ \A i \in TaskIds \ {TASK_MANAGER.current_task} : StatusOf(i) = "Exited"

\* C16: the exclusive access to the task manager is not held when the kernel
\* reaches __switch (run_first_task and run_next_task have dropped it), nor
\* while a task runs in user mode, so no TaskManager method ever asks for
\* the exclusive access while it is held.
C16_ExclusiveAccess ==
    /\ (kpath # <<>> /\ Head(kpath).fn = "__switch") => ~borrowed
    /\ kpath = <<>> => ~borrowed
    /\ borrowed => inside
    /\ panicked # AlreadyHeldPanic

\* the kernel is about to switch to a task other than task 0 while another
\* task is Ready and an mmap has made two address spaces differ
C16_Witness ==
    /\ kpath # <<>>
    /\ Head(kpath).fn = "__switch"
    /\ TASK_MANAGER.current_task # 0
    /\ \E i \in TaskIds : StatusOf(i) = "Ready"
    /\ \E i \in TaskIds : CurrentMemorySet # TASK_MANAGER.tasks[i].memory_set
    /\ ~borrowed

\* the task manager after differs from the one before at most in the
\* address space of the running task
OnlyCurrentMemorySet(before, after) ==
    /\ after.num_app = before.num_app
    /\ after.current_task = before.current_task
    /\ DOMAIN after.tasks = DOMAIN before.tasks
    /\ \A i \in DOMAIN before.tasks :
          /\ after.tasks[i].task_status = before.tasks[i].task_status
          /\ after.tasks[i].stats = before.tasks[i].stats
          /\ (i # before.current_task) =>
                (after.tasks[i].memory_set = before.tasks[i].memory_set)

\* C18: TaskManager::mmap and unmap, and sys_mmap and sys_munmap around
\* them, change at most the address space of the running task, whether they
\* succeed or fail: current_task, every status and every statistic, and the
\* address space of every other task are as before.
C18_OnlyCurrentTask ==
    (started /\ panicked = NoPanic) =>
        /\ \A a \in MmapArgs :
              /\ OnlyCurrentMemorySet(TASK_MANAGER,
                     TaskManager_mmap(TASK_MANAGER, a[1], a[2], a[3]).m)
              /\ OnlyCurrentMemorySet(TASK_MANAGER,
                     do_sys_mmap(TASK_MANAGER, a[1], a[2], a[3]).m)
        /\ \A a \in MunmapArgs :
              /\ OnlyCurrentMemorySet(TASK_MANAGER,
                     TaskManager_unmap(TASK_MANAGER, a[1], a[2]).m)
              /\ OnlyCurrentMemorySet(TASK_MANAGER,
                     do_sys_munmap(TASK_MANAGER, a[1], a[2]).m)

\* a task other than task 0 has mapped a page that another task, which is
\* Ready, has not mapped
C18_Witness ==
    /\ sys_call.op = "mmap"
    /\ sys_call.ret = 0
    /\ TASK_MANAGER.current_task # 0
    /\ \E i \in TaskIds :
          /\ StatusOf(i) = "Ready"
          /\ \E vpn \in VPNs : /\ CurrentMemorySet[vpn] # Unmapped
                                /\ TASK_MANAGER.tasks[i].memory_set[vpn] = Unmapped

----------------------------------------------------------------------------
(* Properties of the allocator state *)

\* C19: in every state of the allocator after init, current <= end; every
\* number in recycled is below current and is held by no live FrameTracker;
\* and no alloc or dealloc leaves current lower than it found it.
C19_AllocatorInvariants ==
    /\ FRAME_ALLOCATOR.current <= FRAME_ALLOCATOR.end
    /\ \A i \in 1..Len(FRAME_ALLOCATOR.recycled) :
          /\ FRAME_ALLOCATOR.recycled[i] < FRAME_ALLOCATOR.current
          /\ ~BagIn(FRAME_ALLOCATOR.recycled[i], trackers)
    /\ frame_call.op # "init" =>
          FRAME_ALLOCATOR.current >= frame_call.pre.current

\* the range is used up, two frames are recycled, among them the last of the
\* range, and a frame is still held
C19_Witness ==
    /\ frame_call.op = "dealloc"
    /\ FRAME_ALLOCATOR.current = FRAME_ALLOCATOR.end
    /\ Len(FRAME_ALLOCATOR.recycled) >= 2
    /\ FRAME_ALLOCATOR.current - 1 \in Range(FRAME_ALLOCATOR.recycled)
    /\ BagCardinality(trackers) >= 1

----------------------------------------------------------------------------
(* Properties of the scheduling order *)

IsReady(i) == i \in TaskIds /\ StatusOf(i) = "Ready"

IsRunning(i) == i \in TaskIds /\ StatusOf(i) = "Running"

\* C20: when the boot code starts the first task and every task that runs
\* goes on to yield or exit, every task that is Ready comes to run, and no
\* more than N - 1 switches pass a Ready task by before it runs, N being the
\* number of tasks.
C20_NoStarvation ==
    /\ [](\A i \in TaskIds : waiting[i] <= TASK_MANAGER.num_app - 1)
    /\ \A i \in 0..(MaxApp - 1) : IsReady(i) ~> IsRunning(i)

\* in a task manager of four tasks a Ready task has been passed by twice
C20_Witness ==
    /\ TASK_MANAGER.num_app = 4
    /\ sys_call.op = "yield"
    /\ panicked = NoPanic
    /\ \E i \in TaskIds : StatusOf(i) = "Ready" /\ waiting[i] = 2

----------------------------------------------------------------------------
(* Properties of the halt and of current_task *)

\* C21: the kernel stops with 'All applications completed!' only in a
\* sys_exit and only when every task is Exited. A sys_yield never stops it:
\* the task that yields is Ready and is selected again when no other task is
\* Ready. A sys_exit does not stop it while another task is Ready.
C21_HaltOnlyFromExit ==
    /\ panicked = AllCompletedPanic =>
          /\ sys_call.op = "exit"
          /\ \A i \in TaskIds : StatusOf(i) = "Exited"
    /\ sys_call.op = "yield" => panicked = NoPanic
    /\ (started /\ panicked = NoPanic) =>
          LET current == TASK_MANAGER.current_task
              others == TaskIds \ {current}
              yielded == suspend_current_and_run_next(TASK_MANAGER)
              exited == exit_current_and_run_next(TASK_MANAGER)
          IN  /\ yielded.panic = NoPanic
              /\ (\A i \in others : StatusOf(i) # "Ready") =>
                    /\ yielded.m.current_task = current
                    /\ yielded.m.tasks[current].task_status = "Running"
              /\ (\E i \in others : StatusOf(i) = "Ready") =>
                    exited.panic = NoPanic
              /\ (exited.panic = AllCompletedPanic) =>
                    \A i \in TaskIds : exited.m.tasks[i].task_status = "Exited"

\* a task manager of one task: the task yielded, ran again, then exited and
\* the kernel stopped
C21_Witness ==
    /\ TASK_MANAGER.num_app = 1
    /\ yields >= 1
    /\ sys_call.op = "exit"
    /\ panicked = AllCompletedPanic
    /\ StatusOf(0) = "Exited"

\* the methods that work on tasks[current_task]
CurrentTaskMethods == {"mark_current_suspended", "mark_current_exited",
                       "get_current_task_info", "get_current_token",
                       "mmap", "unmap"}

\* C22: a task whose status is Running has the index current_task, at every
\* point between two TaskManager methods and while a task runs in user mode;
\* so a method that works on tasks[current_task] is called with
\* tasks[current_task] being the task that is Running.
C22_RunningIsCurrent ==
    /\ \A i \in TaskIds :
          StatusOf(i) = "Running" => i = TASK_MANAGER.current_task
    /\ (panicked = NoPanic /\ kpath # <<>>
           /\ Head(kpath).fn \in CurrentTaskMethods) =>
          /\ StatusOf(TASK_MANAGER.current_task) = "Running"
          /\ RunningTasks = {TASK_MANAGER.current_task}

\* task 1 runs after a switch, task 0 is Ready, and the kernel is about to
\* call unmap for task 1
C22_Witness ==
    /\ kpath # <<>>
    /\ Head(kpath).fn = "unmap"
    /\ TASK_MANAGER.current_task = 1
    /\ StatusOf(1) = "Running"
    /\ StatusOf(0) = "Ready"

====
